---- MODULE Spec2Model ----
(***************************************************************************)
(* twe-dlp: resolve a Twitch channel identifier on twitchemotes.com,       *)
(* scrape the channel page for emote images and download every emote in    *)
(* three sizes.  Go strings are modelled as sequences of one-character     *)
(* strings, so that trimming, regular-expression matching, substring       *)
(* search and splitting are computed character by character.               *)
(***************************************************************************)
EXTENDS Integers, Sequences, FiniteSets, Bags, TLC

VARIABLES
    pc,                 \* position of the running function / process
    arg,                \* argument of the pure function under test
    out,                \* its result
    out2,               \* result of applying the function to its own result
    channelIdentifier,  \* the identifier given by the user
    response,           \* the response to the search POST, NoResponse if none
    channelID,          \* resolveChannelIdentifierToID's first result
    err,                \* the error returned to the caller, "" for nil
    requests,           \* every HTTP request handed to httpClient.Do, in order
    document,           \* the parsed channel page
    imgIndex,           \* number of img elements already visited by Each
    emoteMap,           \* collectEmoteMetadata's emoteMap
    page,               \* what the GET of the channel page met, "none" before it
    outputRoot,         \* downloadChannelEmotes' outputRoot
    dirs,               \* the directories MkdirAll has created
    files,              \* the files os.Create has created: path -> writer, state
    processed,          \* the emotes the range loop has already taken
    mkdirFailed,        \* the emotes whose folder could not be created
    curEmote,           \* downloadEmoteImages' emoteIdentifier
    sizeIdx,            \* index into emoteSizeList of the next size
    attempts,           \* the <<emote, size index>> pairs attempted, in order
    lastOutcome,        \* how the latest attempt ended
    exitCode,           \* the exit code of the process, -1 while it runs
    openHandles,        \* the response bodies and files open and not yet closed
    logLines,           \* the bag of the [error], [skip] and [ok] lines logged
    m,                  \* the model of the interactive mode
    commands,           \* the commands of the interactive mode that are running
    messages            \* the messages sent to Update and not yet handled

pureVars == <<arg, out, out2>>

resolveVars == <<channelIdentifier, response, channelID, err, requests>>

collectVars == <<document, imgIndex, emoteMap>>

runVars == <<page, outputRoot, dirs, files, processed, mkdirFailed, curEmote, sizeIdx,
             attempts, lastOutcome, exitCode>>

ioVars == <<openHandles, logLines>>

tuiVars == <<m, commands, messages>>

vars == <<pc, arg, out, out2, channelIdentifier, response, channelID, err, requests,
          document, imgIndex, emoteMap, page, outputRoot, dirs, files, processed,
          mkdirFailed, curEmote, sizeIdx, attempts, lastOutcome, exitCode,
          openHandles, logLines, m, commands, messages>>

(***************************************************************************)
(* Bounds of the model.                                                    *)
(***************************************************************************)
MaxNameLen == 4

MaxCtChunks == 3

MaxIdLen == 3

MaxUrlChunks == 2

MaxBodyChunks == 3

MaxImages == 2

MaxRunImages == 2

(***************************************************************************)
(* Character classes and string helpers (Go: strings, regexp).             *)
(***************************************************************************)
LowerSeq == <<"a","b","c","d","e","f","g","h","i","j","k","l","m",
              "n","o","p","q","r","s","t","u","v","w","x","y","z">>

UpperSeq == <<"A","B","C","D","E","F","G","H","I","J","K","L","M",
              "N","O","P","Q","R","S","T","U","V","W","X","Y","Z">>

Lower == {LowerSeq[i] : i \in 1..26}

Upper == {UpperSeq[i] : i \in 1..26}

Digits == {"0","1","2","3","4","5","6","7","8","9"}

\* unicode.IsSpace, as used by strings.TrimSpace
IsSpace(c) == c \in {" ", "\t", "\n", "\r"}

SeqsUpTo(S, n) == UNION {[1..k -> S] : k \in 0..n}

\* the concatenation of a sequence of strings
RECURSIVE Flatten(_)
Flatten(ss) == IF ss = <<>> THEN <<>> ELSE Head(ss) \o Flatten(Tail(ss))

\* every concatenation of at most n chunks drawn from the set C
ChunkStrings(C, n) == {Flatten(ss) : ss \in SeqsUpTo(C, n)}

\* sub occurs in s at position i (1-based)
MatchesAt(s, sub, i) ==
    /\ i >= 1
    /\ i + Len(sub) - 1 <= Len(s)
    /\ \A j \in 1..Len(sub) : s[i + j - 1] = sub[j]

\* strings.Contains
Contains(s, sub) == \E i \in 1..(Len(s) + 1) : MatchesAt(s, sub, i)

\* strings.HasPrefix
HasPrefix(s, prefix) == MatchesAt(s, prefix, 1)

ToLowerChar(c) ==
    IF c \in Upper THEN LowerSeq[CHOOSE i \in 1..26 : UpperSeq[i] = c] ELSE c

\* strings.ToLower
ToLower(s) == [i \in 1..Len(s) |-> ToLowerChar(s[i])]

RECURSIVE TrimLeft(_)
TrimLeft(s) ==
    IF s = <<>> THEN <<>>
    ELSE IF IsSpace(Head(s)) THEN TrimLeft(Tail(s)) ELSE s

RECURSIVE TrimRight(_)
TrimRight(s) ==
    IF s = <<>> THEN <<>>
    ELSE IF IsSpace(s[Len(s)]) THEN TrimRight(SubSeq(s, 1, Len(s) - 1)) ELSE s

\* strings.TrimSpace
TrimSpace(s) == TrimRight(TrimLeft(s))

(***************************************************************************)
(* The states of the parts of the program that have not run.               *)
(***************************************************************************)
NoResponse == [doErr |-> TRUE, finalURL |-> <<>>, body |-> <<>>, readErr |-> FALSE]

NoHeader == [present |-> FALSE, anchor |-> <<>>, hasAnchor |-> FALSE,
             heading |-> <<>>, hasHeading |-> FALSE]

NoDocument == [header |-> NoHeader, images |-> <<>>]

\* the resolver has not been called
IdleResolve ==
    /\ channelIdentifier = <<>>
    /\ response = NoResponse
    /\ channelID = <<>>
    /\ err = ""
    /\ requests = <<>>

\* no page has been fetched
IdleCollect ==
    /\ document = NoDocument
    /\ imgIndex = 0
    /\ emoteMap = <<>>

\* newModel: the model of the interactive mode before any message; the text
\* input is empty and nothing runs
NewModel == [downloading |-> FALSE, downloadError |-> "", showHelp |-> FALSE,
             textInput |-> <<>>, logLines |-> <<>>]

\* the interactive mode has not started
IdleTui ==
    /\ m = NewModel
    /\ commands = <<>>
    /\ messages = <<>>

\* the download has not started
IdleRun ==
    /\ page = "none"
    /\ outputRoot = <<>>
    /\ dirs = {}
    /\ files = <<>>
    /\ processed = {}
    /\ mkdirFailed = {}
    /\ curEmote = <<>>
    /\ sizeIdx = 0
    /\ attempts = <<>>
    /\ lastOutcome = "none"
    /\ exitCode = -1
    /\ openHandles = {}
    /\ logLines = EmptyBag
    /\ IdleTui

\* no pure function is under test
IdlePure ==
    /\ arg = <<>>
    /\ out = <<>>
    /\ out2 = <<>>

(***************************************************************************)
(* makeSafeName                                                            *)
(***************************************************************************)
S_unknown == <<"u","n","k","n","o","w","n">>

\* the complement of the class of safeNamePattern, [^A-Za-z0-9_]+
IsSafeChar(c) == c \in Lower \cup Upper \cup Digits \cup {"_"}

\* safeNamePattern.ReplaceAllString(s, "_"): every maximal run of characters
\* outside [A-Za-z0-9_] becomes one underscore.  inRun: the previous character
\* belonged to a run that has already been replaced.
RECURSIVE ReplaceUnsafeRuns(_, _)
ReplaceUnsafeRuns(s, inRun) ==
    IF s = <<>> THEN <<>>
    ELSE IF IsSafeChar(Head(s)) THEN <<Head(s)>> \o ReplaceUnsafeRuns(Tail(s), FALSE)
    ELSE IF inRun THEN ReplaceUnsafeRuns(Tail(s), TRUE)
    ELSE <<"_">> \o ReplaceUnsafeRuns(Tail(s), TRUE)

\* a slip that forgets the replacement and returns the trimmed name
makeSafeName_NoReplace(name) ==
    LET trimmed == TrimSpace(name) IN
    IF trimmed = <<>> THEN S_unknown ELSE trimmed

makeSafeName(name) ==
    LET trimmed == TrimSpace(name) IN
    IF trimmed = <<>> THEN S_unknown
    ELSE LET safe == ReplaceUnsafeRuns(trimmed, FALSE) IN
         IF safe = <<>> THEN S_unknown ELSE safe

(***************************************************************************)
(* Specification SpecSafeName: makeSafeName applied to every name over a   *)
(* set of representative characters, and once more to its own result.      *)
(***************************************************************************)
NameChars == {"a", "Z", "7", "_", " ", "!", ":"}

InitSafeName ==
    /\ pc = "name"
    /\ arg \in SeqsUpTo(NameChars, MaxNameLen)
    /\ out = <<>>
    /\ out2 = <<>>
    /\ IdleResolve
    /\ IdleCollect
    /\ IdleRun

SanitizeName ==
    /\ pc = "name"
    /\ out' = makeSafeName(arg)
    /\ pc' = "sanitized"
    /\ UNCHANGED <<tuiVars, ioVars, arg, out2, resolveVars, collectVars, runVars>>

SanitizeAgain ==
    /\ pc = "sanitized"
    /\ out2' = makeSafeName(out)
    /\ pc' = "resanitized"
    /\ UNCHANGED <<tuiVars, ioVars, arg, out, resolveVars, collectVars, runVars>>

NextSafeName == SanitizeName \/ SanitizeAgain

SpecSafeName == InitSafeName /\ [][NextSafeName]_vars

OnlyUnsafeChars(s) == \A i \in 1..Len(s) : ~IsSafeChar(s[i])

\* C6: makeSafeName returns "unknown" for the empty string and for every string
\* made only of characters outside [A-Za-z0-9_].
C6_UnsafeOnlyIsUnknown ==
    (pc = "sanitized" /\ OnlyUnsafeChars(arg)) => out = S_unknown

\* C7: makeSafeName is idempotent, and its result is a non-empty string over
\* [A-Za-z0-9_].
C7_Idempotent ==
    /\ pc \in {"sanitized", "resanitized"} =>
          /\ out # <<>>
          /\ \A i \in 1..Len(out) : IsSafeChar(out[i])
    /\ pc = "resanitized" => out2 = out

\* C7 witness: a name with blanks and disallowed characters was sanitized twice
C7_Witness ==
    /\ pc = "resanitized"
    /\ arg = <<" ", "a", "!", ":">>
    /\ out = <<"a", "_">>
    /\ out2 = out

(***************************************************************************)
(* determineFileExtension                                                  *)
(***************************************************************************)
S_gif == <<"g","i","f">>

S_jpeg == <<"j","p","e","g">>

S_jpg == <<"j","p","g">>

S_png == <<"p","n","g">>

S_img == <<"i","m","g">>

\* a slip that tests png before gif
determineFileExtension_PngFirst(contentType) ==
    LET lowered == ToLower(contentType) IN
    IF Contains(lowered, S_png) THEN S_png
    ELSE IF Contains(lowered, S_gif) THEN S_gif
    ELSE IF Contains(lowered, S_jpeg) \/ Contains(lowered, S_jpg) THEN S_jpg
    ELSE S_img

determineFileExtension(contentType) ==
    LET lowered == ToLower(contentType) IN
    IF Contains(lowered, S_gif) THEN S_gif
    ELSE IF Contains(lowered, S_jpeg) \/ Contains(lowered, S_jpg) THEN S_jpg
    ELSE IF Contains(lowered, S_png) THEN S_png
    ELSE S_img

(***************************************************************************)
(* Specification SpecExt: determineFileExtension applied to content types  *)
(* assembled from pieces that can form, split or mix the keywords.         *)
(***************************************************************************)
ContentTypeChunks ==
    { <<"i","m","a","g","e","/">>, <<"g","i","f">>, <<"G","I","F">>, <<"j","p","e","g">>, <<"J","p","G">>, <<"p","n","g">>, <<"P","N","G">>,
      <<"p","n">>, <<"g">>, <<"j","p">>, <<";"," ","q">> }

InitExt ==
    /\ pc = "ctype"
    /\ arg \in ChunkStrings(ContentTypeChunks, MaxCtChunks)
    /\ out = <<>>
    /\ out2 = <<>>
    /\ IdleResolve
    /\ IdleCollect
    /\ IdleRun

ClassifyContentType ==
    /\ pc = "ctype"
    /\ out' = determineFileExtension(arg)
    /\ pc' = "classified"
    /\ UNCHANGED <<tuiVars, ioVars, arg, out2, resolveVars, collectVars, runVars>>

NextExt == ClassifyContentType

SpecExt == InitExt /\ [][NextExt]_vars

\* the lower-cased content type contains the keyword kw
Mentions(ct, kw) == Contains(ToLower(ct), kw)

\* C8: determineFileExtension classifies by case-insensitive substring match
\* in the priority gif, then jpeg/jpg, then png, else img.
C8_ExtensionPriority ==
    pc = "classified" =>
        /\ Mentions(arg, S_gif) => out = S_gif
        /\ (~Mentions(arg, S_gif) /\ (Mentions(arg, S_jpeg) \/ Mentions(arg, S_jpg)))
              => out = S_jpg
        /\ (~Mentions(arg, S_gif) /\ ~Mentions(arg, S_jpeg) /\ ~Mentions(arg, S_jpg)
              /\ Mentions(arg, S_png)) => out = S_png
        /\ (~Mentions(arg, S_gif) /\ ~Mentions(arg, S_jpeg) /\ ~Mentions(arg, S_jpg)
              /\ ~Mentions(arg, S_png)) => out = S_img

\* C8 witness: a content type naming png, jpeg and (in upper case) gif is gif
C8_Witness ==
    /\ pc = "classified"
    /\ arg = <<"p","n","g","j","p","e","g","G","I","F">>
    /\ out = S_gif

(***************************************************************************)
(* resolveChannelIdentifierToID                                            *)
(***************************************************************************)
S_twitchemotesBaseURL == <<"h","t","t","p","s",":","/","/","t","w","i","t","c","h","e","m","o","t","e","s",".","c","o","m">>

S_channelsPath == <<"/","c","h","a","n","n","e","l","s","/">>

\* the maximal run of digits that starts s
RECURSIVE TakeDigits(_)
TakeDigits(s) ==
    IF s = <<>> \/ Head(s) \notin Digits THEN <<>>
    ELSE <<Head(s)>> \o TakeDigits(Tail(s))

\* a slip that writes the pattern /channels/(\d) and captures one digit
RECURSIVE FindChannelID_OneDigit(_, _)
FindChannelID_OneDigit(s, i) ==
    IF i > Len(s) THEN [found |-> FALSE, digits |-> <<>>]
    ELSE IF MatchesAt(s, S_channelsPath, i)
            /\ i + Len(S_channelsPath) <= Len(s)
            /\ s[i + Len(S_channelsPath)] \in Digits
         THEN [found |-> TRUE, digits |-> <<s[i + Len(S_channelsPath)]>>]
         ELSE FindChannelID_OneDigit(s, i + 1)

\* channelURLPattern.FindStringSubmatch(s), scanning from position i: the
\* leftmost match of /channels/(\d+), the digits taken greedily
RECURSIVE FindChannelID(_, _)
FindChannelID(s, i) ==
    IF i > Len(s) THEN [found |-> FALSE, digits |-> <<>>]
    ELSE IF MatchesAt(s, S_channelsPath, i)
            /\ i + Len(S_channelsPath) <= Len(s)
            /\ s[i + Len(S_channelsPath)] \in Digits
         THEN [found |-> TRUE,
               digits |-> TakeDigits(SubSeq(s, i + Len(S_channelsPath), Len(s)))]
         ELSE FindChannelID(s, i + 1)

\* the loop over the runes of the identifier
IsNumeric(identifier) ==
    \A i \in 1..Len(identifier) : identifier[i] \in Digits

\* a slip that drops the numeric shortcut and always searches
resolveChannelIdentifierToID_AlwaysSearch(identifier, r) ==
    IF identifier = <<>> THEN [id |-> <<>>, err |-> "empty", posted |-> FALSE]
    ELSE IF r.doErr THEN [id |-> <<>>, err |-> "transport", posted |-> TRUE]
    ELSE LET inURL == FindChannelID(r.finalURL, 1) IN
         IF inURL.found THEN [id |-> inURL.digits, err |-> "", posted |-> TRUE]
         ELSE IF IsNumeric(identifier)
              THEN [id |-> identifier, err |-> "", posted |-> TRUE]
              ELSE [id |-> <<>>, err |-> "unresolved", posted |-> TRUE]

\* resolveChannelIdentifierToID(httpClient, identifier), r being what the
\* search POST meets: id and err are the results, posted tells whether
\* httpClient.Do was called
resolveChannelIdentifierToID(identifier, r) ==
    IF identifier = <<>> THEN [id |-> <<>>, err |-> "empty", posted |-> FALSE]
    ELSE IF IsNumeric(identifier)
         THEN [id |-> identifier, err |-> "", posted |-> FALSE]
    ELSE IF r.doErr THEN [id |-> <<>>, err |-> "transport", posted |-> TRUE]
    ELSE LET inURL == FindChannelID(r.finalURL, 1) IN
         IF inURL.found THEN [id |-> inURL.digits, err |-> "", posted |-> TRUE]
         ELSE IF r.readErr THEN [id |-> <<>>, err |-> "transport", posted |-> TRUE]
         ELSE LET inBody == FindChannelID(r.body, 1) IN
              IF inBody.found
              THEN [id |-> inBody.digits, err |-> "", posted |-> TRUE]
              ELSE [id |-> <<>>, err |-> "unresolved", posted |-> TRUE]

\* the handles left open by a piece of code that starts with those of open,
\* opens those of opened and closes those of closed
AfterUse(open, opened, closed) == (open \cup opened) \ closed

\* line 94: the response body the search POST opens
SearchOpened(res, r) == IF res.posted /\ ~r.doErr THEN {"searchBody"} ELSE {}

\* line 98: the deferred Close runs on every return after a successful Do
SearchClosed(res, r) == IF res.posted /\ ~r.doErr THEN {"searchBody"} ELSE {}

SearchRequest == [method |-> "POST", kind |-> "search", emote |-> <<>>, size |-> 0]

\* one call of resolveChannelIdentifierToID; when the call posts the search,
\* the POST meets one of Responses
ResolveWith(Responses) ==
    /\ pc = "resolve"
    /\ \E r \in (IF resolveChannelIdentifierToID(channelIdentifier, NoResponse).posted
                 THEN Responses ELSE {NoResponse}) :
          LET res == resolveChannelIdentifierToID(channelIdentifier, r) IN
          /\ response' = IF res.posted THEN r ELSE NoResponse
          /\ requests' = IF res.posted THEN Append(requests, SearchRequest)
                                       ELSE requests
          /\ channelID' = res.id
          /\ err' = res.err
          /\ openHandles' = AfterUse(openHandles, SearchOpened(res, r), SearchClosed(res, r))
    /\ pc' = "resolved"
    /\ UNCHANGED <<tuiVars, logLines, pureVars, channelIdentifier, collectVars, runVars>>

(***************************************************************************)
(* Specification SpecResolve: one call of the resolver, for numeric and    *)
(* other identifiers and every outcome of the search POST.                 *)
(***************************************************************************)
UrlChunks == { S_channelsPath, <<"1","2">>, <<"x">> }

BodyChunks == { S_channelsPath, <<"c","h","a","n","n","e","l","s","/">>, <<"/">>, <<"7">>, <<"x">> }

Identifiers ==
    SeqsUpTo({"0", "1", "9"}, MaxIdLen) \cup { <<"a","b">>, <<"1","a">>, <<"-","1">> }

SearchResponses ==
    {[doErr |-> TRUE, finalURL |-> <<>>, body |-> <<>>, readErr |-> FALSE]}
    \cup [doErr : {FALSE},
          finalURL : {S_twitchemotesBaseURL \o u :
                        u \in ChunkStrings(UrlChunks, MaxUrlChunks)},
          body : ChunkStrings(BodyChunks, MaxBodyChunks),
          readErr : BOOLEAN]

InitResolve ==
    /\ pc = "resolve"
    /\ IdlePure
    /\ channelIdentifier \in Identifiers
    /\ response = NoResponse
    /\ channelID = <<>>
    /\ err = ""
    /\ requests = <<>>
    /\ IdleCollect
    /\ IdleRun

ResolveAny == ResolveWith(SearchResponses)

NextResolve == ResolveAny

SpecResolve == InitResolve /\ [][NextResolve]_vars

\* C1: a non-empty identifier made only of the digits 0-9 is returned
\* unchanged, with no error and without any HTTP request.
C1_NumericUnchanged ==
    (/\ pc = "resolved"
     /\ channelIdentifier # <<>>
     /\ \A i \in 1..Len(channelIdentifier) : channelIdentifier[i] \in Digits)
    => /\ channelID = channelIdentifier
       /\ err = ""
       /\ requests = <<>>

\* C1 witness: the numeric identifier 019 has been resolved
C1_Witness ==
    /\ pc = "resolved"
    /\ channelIdentifier = <<"0","1","9">>
    /\ channelID = <<"0","1","9">>
    /\ requests = <<>>

\* s holds /channels/ followed by a digit at position i
ChannelMatchAt(s, i) ==
    /\ MatchesAt(s, S_channelsPath, i)
    /\ i + 10 <= Len(s)
    /\ s[i + 10] \in Digits

HasChannelMatch(s) == \E i \in 1..Len(s) : ChannelMatchAt(s, i)

\* d is the whole run of digits after the first /channels/<digit> of s
IsFirstChannelDigits(s, d) ==
    \E i \in 1..Len(s) :
        /\ ChannelMatchAt(s, i)
        /\ \A j \in 1..(i - 1) : ~ChannelMatchAt(s, j)
        /\ d # <<>>
        /\ i + 9 + Len(d) <= Len(s)
        /\ d = SubSeq(s, i + 10, i + 9 + Len(d))
        /\ \A k \in 1..Len(d) : d[k] \in Digits
        /\ (i + 10 + Len(d) <= Len(s) => s[i + 10 + Len(d)] \notin Digits)

\* C2: for a non-empty non-numeric identifier whose search POST meets no
\* transport error (neither in Do nor in reading the body), the result is the
\* digits of the first /channels/<digits> of the final URL if there is one,
\* else those of the first one of the body, and the could-not-resolve error
\* exactly when neither holds one.
C2_UrlThenBody ==
    (/\ pc = "resolved"
     /\ channelIdentifier # <<>>
     /\ \E i \in 1..Len(channelIdentifier) : channelIdentifier[i] \notin Digits
     /\ ~response.doErr
     /\ ~response.readErr)
    => /\ HasChannelMatch(response.finalURL)
            => (err = "" /\ IsFirstChannelDigits(response.finalURL, channelID))
       /\ (~HasChannelMatch(response.finalURL) /\ HasChannelMatch(response.body))
            => (err = "" /\ IsFirstChannelDigits(response.body, channelID))
       /\ err = "unresolved"
            <=> (~HasChannelMatch(response.finalURL) /\ ~HasChannelMatch(response.body))
       /\ requests = <<SearchRequest>>

\* C2 witness: the final URL holds no match, the body holds /channels/77, and
\* 77 is returned
C2_Witness ==
    /\ pc = "resolved"
    /\ channelIdentifier = <<"a","b">>
    /\ ~response.doErr
    /\ ~HasChannelMatch(response.finalURL)
    /\ response.body = <<"/","c","h","a","n","n","e","l","s","/","7","7">>
    /\ channelID = <<"7","7">>
    /\ err = ""

(***************************************************************************)
(* collectEmoteMetadata                                                    *)
(***************************************************************************)
S_cdnMarker == <<"s","t","a","t","i","c","-","c","d","n",".","j","t","v","n","w",".","n","e","t","/","e","m","o","t","i","c","o","n","s","/","v","2","/">>

S_emoticons == <<"e","m","o","t","i","c","o","n","s">>

S_httpPrefix == <<"h","t","t","p",":","/","/">>

S_httpsPrefix == <<"h","t","t","p","s",":","/","/">>

\* the segments of s from position i on, the current one starting at start
RECURSIVE SplitFrom(_, _, _)
SplitFrom(s, i, start) ==
    IF i > Len(s) THEN <<SubSeq(s, start, Len(s))>>
    ELSE IF s[i] = "/" THEN <<SubSeq(s, start, i - 1)>> \o SplitFrom(s, i + 1, i + 1)
    ELSE SplitFrom(s, i + 1, start)

\* strings.Split(s, "/")
SplitSlash(s) == SplitFrom(s, 1, 1)

\* strings.Join(parts, "/")
RECURSIVE JoinSlash(_)
JoinSlash(parts) ==
    IF parts = <<>> THEN <<>>
    ELSE IF Len(parts) = 1 THEN parts[1]
    ELSE parts[1] \o <<"/">> \o JoinSlash(Tail(parts))

\* net/url getScheme: the length of the scheme that starts s, 0 when s has
\* none, -1 for the error "missing protocol scheme" (s starts with a colon)
RECURSIVE SchemeLen(_, _)
SchemeLen(s, i) ==
    IF i > Len(s) THEN 0
    ELSE IF s[i] \in Lower \cup Upper THEN SchemeLen(s, i + 1)
    ELSE IF s[i] \in Digits \cup {"+", "-", "."}
         THEN (IF i = 1 THEN 0 ELSE SchemeLen(s, i + 1))
    ELSE IF s[i] = ":" THEN (IF i = 1 THEN -1 ELSE i - 1)
    ELSE 0

\* the ASCII control characters, which url.Parse rejects
IsControlChar(c) == c \in {"\t", "\n", "\r"}

\* resolveRelativeURL(twitchemotesBaseURL, relative) for references made of
\* letters, digits, "/", ":", ".", "-", "_" and control characters (no query,
\* fragment, escape or dot segment): url.Parse rejects a control character, a
\* leading colon and a colon in the first segment of a relative path;
\* ResolveReference keeps an absolute reference (its scheme lower-cased by
\* Parse), gives a //host reference the scheme of the base, and puts a path
\* under the host of the base
resolveRelativeURL(base, relative) ==
    LET n == SchemeLen(relative, 1)
        first == SplitSlash(relative)[1]
    IN
    IF \E i \in 1..Len(relative) : IsControlChar(relative[i])
        THEN [ok |-> FALSE, url |-> <<>>]
    ELSE IF n = -1 THEN [ok |-> FALSE, url |-> <<>>]
    ELSE IF n > 0
        THEN [ok |-> TRUE,
              url |-> ToLower(SubSeq(relative, 1, n))
                        \o SubSeq(relative, n + 1, Len(relative))]
    ELSE IF HasPrefix(relative, <<"/", "/">>)
        THEN [ok |-> TRUE, url |-> <<"h","t","t","p","s",":">> \o relative]
    ELSE IF HasPrefix(relative, <<"/">>)
        THEN [ok |-> TRUE, url |-> base \o relative]
    ELSE IF \E i \in 1..Len(first) : first[i] = ":"
        THEN [ok |-> FALSE, url |-> <<>>]
    ELSE [ok |-> TRUE, url |-> base \o <<"/">> \o relative]

\* htmlTagPattern, <.*?> : the position of the first ">" at or after i that
\* no line feed precedes, 0 if there is none (the dot matches no line feed)
RECURSIVE TagEnd(_, _)
TagEnd(s, i) ==
    IF i > Len(s) THEN 0
    ELSE IF s[i] = ">" THEN i
    ELSE IF s[i] = "\n" THEN 0
    ELSE TagEnd(s, i + 1)

\* s from position i on without the matches of htmlTagPattern
RECURSIVE StripFrom(_, _)
StripFrom(s, i) ==
    IF i > Len(s) THEN <<>>
    ELSE IF s[i] = "<" /\ TagEnd(s, i + 1) > 0 THEN StripFrom(s, TagEnd(s, i + 1) + 1)
    ELSE <<s[i]>> \o StripFrom(s, i + 1)

\* htmlTagPattern.ReplaceAllString(s, "")
StripTags(s) == StripFrom(s, 1)

\* the index (1-based) of the first part equal to "emoticons", 0 if none
RECURSIVE EmoticonsIndex(_, _)
EmoticonsIndex(parts, i) ==
    IF i > Len(parts) THEN 0
    ELSE IF parts[i] = S_emoticons THEN i
    ELSE EmoticonsIndex(parts, i + 1)

NoEmote == [ok |-> FALSE, id |-> <<>>, formatType |-> <<>>, baseURL |-> <<>>]

\* F applied to the value of v, which is worked out once
WithValue(v, F(_)) == CHOOSE y \in {F(x) : x \in {v}} : TRUE

\* lines 191-198: the absolute URL of the image source, ok being FALSE where
\* resolveRelativeURL returns an error
FullImageSource(imageSource) ==
    IF HasPrefix(imageSource, S_httpPrefix) \/ HasPrefix(imageSource, S_httpsPrefix)
    THEN [ok |-> TRUE, url |-> imageSource]
    ELSE resolveRelativeURL(S_twitchemotesBaseURL, imageSource)

\* a slip that asks for four segments after "emoticons"
EmoteOfParts_FourSegments(pathParts, emoticonsIndex) ==
    IF emoticonsIndex = 0 THEN NoEmote
    ELSE IF emoticonsIndex + 4 > Len(pathParts) THEN NoEmote
    ELSE [ok |-> TRUE,
          id |-> pathParts[emoticonsIndex + 2],
          formatType |-> pathParts[emoticonsIndex + 3],
          baseURL |-> JoinSlash(SubSeq(pathParts, 1, emoticonsIndex + 3))]

\* lines 208-217: the identifier, the format and the base URL read from the
\* split path, emoticonsIndex being 1-based here
EmoteOfParts(pathParts, emoticonsIndex) ==
    IF emoticonsIndex = 0 THEN NoEmote
    ELSE IF emoticonsIndex + 3 > Len(pathParts) THEN NoEmote
    ELSE [ok |-> TRUE,
          id |-> pathParts[emoticonsIndex + 2],
          formatType |-> pathParts[emoticonsIndex + 3],
          baseURL |-> JoinSlash(SubSeq(pathParts, 1, emoticonsIndex + 3))]

\* lines 182-217 of the Each callback: from the img element to the
\* identifier, the format and the base URL, ok being FALSE where the
\* callback returns early
ParseEmote(img) ==
    IF ~img.hasSrc \/ img.src = <<>> THEN NoEmote
    ELSE IF ~Contains(img.src, S_cdnMarker) THEN NoEmote
    ELSE WithValue(FullImageSource(img.src), LAMBDA fullImageSource :
            IF ~fullImageSource.ok THEN NoEmote
            ELSE WithValue(SplitSlash(fullImageSource.url), LAMBDA pathParts :
                    WithValue(EmoticonsIndex(pathParts, 1), LAMBDA emoticonsIndex :
                        EmoteOfParts(pathParts, emoticonsIndex))))

\* lines 219-234 of the Each callback: the emote code of an img element whose
\* identifier is emoteIdentifier.  Attr gives "" for an absent attribute.
EmoteCodeOf(img, emoteIdentifier) ==
    LET regexValue == IF img.hasRegex THEN img.regex ELSE <<>>
        afterTooltip ==
            IF ~img.hasRegex \/ TrimSpace(regexValue) = <<>>
            THEN IF img.hasTooltip /\ TrimSpace(img.tooltip) # <<>>
                 THEN TrimSpace(StripTags(img.tooltip))
                 ELSE regexValue
            ELSE regexValue
    IN
    IF afterTooltip = <<>>
    THEN LET parentText == TrimSpace(img.parentText) IN
         IF parentText # <<>> THEN parentText ELSE emoteIdentifier
    ELSE afterTooltip

\* a slip that drops the exists test: the last image of an identifier wins
StoreEmote_LastWins(map, e, code) ==
    [k \in DOMAIN map \cup {e.id} |->
        IF k = e.id
        THEN [baseURL |-> e.baseURL, formatType |-> e.formatType, emoteCode |-> code]
        ELSE map[k]]

\* lines 236-244: the map after the callback has met emote e with this code
StoreEmote(map, e, code) ==
    IF e.id \in DOMAIN map THEN map
    ELSE [k \in DOMAIN map \cup {e.id} |->
            IF k = e.id
            THEN [baseURL |-> e.baseURL, formatType |-> e.formatType,
                  emoteCode |-> code]
            ELSE map[k]]

\* one call of the callback of document.Find("img").Each
CollectImage ==
    /\ pc = "collect"
    /\ imgIndex < Len(document.images)
    /\ emoteMap' =
          WithValue(document.images[imgIndex + 1], LAMBDA img :
             WithValue(ParseEmote(img), LAMBDA e :
                IF e.ok THEN StoreEmote(emoteMap, e, EmoteCodeOf(img, e.id))
                        ELSE emoteMap))
    /\ imgIndex' = imgIndex + 1
    /\ UNCHANGED <<tuiVars, ioVars, pc, pureVars, resolveVars, document, runVars>>

\* Each has visited every img element: collectEmoteMetadata returns
CollectReturn ==
    /\ pc = "collect"
    /\ imgIndex = Len(document.images)
    /\ pc' = "collected"
    /\ UNCHANGED <<tuiVars, ioVars, pureVars, resolveVars, collectVars, runVars>>

(***************************************************************************)
(* Specification SpecCollect: collectEmoteMetadata on every document of at *)
(* most MaxImages img elements.                                            *)
(***************************************************************************)
S_cdn == S_httpsPrefix \o S_cdnMarker

\* an img element: its src, data-regex and data-tooltip attributes and the
\* text of its parent
Img(src, hasRegex, regex, hasTooltip, tooltip, parentText) ==
    [hasSrc |-> TRUE, src |-> src, hasRegex |-> hasRegex, regex |-> regex,
     hasTooltip |-> hasTooltip, tooltip |-> tooltip, parentText |-> parentText]

\* one CDN source with the combinations of the attributes the code reads:
\* no usable data-regex with every tooltip and parent text, and a data-regex
\* with and without the other two
AttrImages ==
    { Img(S_cdn \o <<"9","9","9","/","d","e","f","a","u","l","t","/","l","i","g","h","t","/","1",".","0">>, r[1], r[2], t[1], t[2], p) :
        r \in { <<FALSE, <<>> >>, <<TRUE, <<" ">> >> },
        t \in { <<FALSE, <<>> >>, <<TRUE, <<"<","b",">","<","/","b",">"," ">> >>, <<TRUE, <<"<","b",">","H","i","<","/","b",">">> >> },
        p \in { <<" ">>, <<" ","L","U","L"," ">> } }
    \cup { Img(S_cdn \o <<"9","9","9","/","d","e","f","a","u","l","t","/","l","i","g","h","t","/","1",".","0">>, TRUE, <<" ","K","a","p","p","a">>,
               TRUE, <<"<","b",">","H","i","<","/","b",">">>, <<" ","L","U","L"," ">>),
           Img(S_cdn \o <<"9","9","9","/","d","e","f","a","u","l","t","/","l","i","g","h","t","/","1",".","0">>, TRUE, <<" ","K","a","p","p","a">>,
               FALSE, <<>>, <<" ">>) }

\* the shapes of source the callback tells apart, each with its own code
SrcImages ==
    { Img(S_cdn \o <<"4","2","/","s","t","a","t","i","c","/","l","i","g","h","t","/","2",".","0">>, TRUE, <<"a">>, FALSE, <<>>, <<>>),
      Img(S_cdn \o <<"9","9","9","/","s","t","a","t","i","c","/","d","a","r","k","/","1",".","0">>, TRUE, <<"b">>, FALSE, <<>>, <<>>),
      Img(S_cdn \o <<"9","9","9">>, TRUE, <<"c">>, FALSE, <<>>, <<>>),
      Img(S_cdn \o <<"9","9","9","/">>, TRUE, <<"d">>, FALSE, <<>>, <<>>),
      Img(<<"/","/","s","t","a","t","i","c","-","c","d","n",".","j","t","v","n","w",".","n","e","t","/","e","m","o","t","i","c","o","n","s","/","v","2","/","4","2","/","d","e","f","a","u","l","t","/","l","i","g","h","t","/","1",".","0">>,
          TRUE, <<"e">>, FALSE, <<>>, <<>>),
      Img(<<"/","e","m","o","t","i","c","o","n","s","/","x","/","s","t","a","t","i","c","-","c","d","n",".","j","t","v","n","w",".","n","e","t","/","e","m","o","t","i","c","o","n","s","/","v","2","/","7","/","d","e","f","a","u","l","t">>,
          TRUE, <<"f">>, FALSE, <<>>, <<>>),
      Img(<<"h","t","t","p","s",":","/","/","e","x","a","m","p","l","e",".","c","o","m","/","a",".","p","n","g">>, TRUE, <<"g">>, FALSE, <<>>, <<>>),
      Img(<<"s","t","a","t","i","c","-","c","d","n",".","j","t","v","n","w",".","n","e","t","/","e","m","o","t","i","c","o","n","s","/","v","2","/","4","2","/","d","e","f","a","u","l","t","/","\n">>,
          TRUE, <<"h">>, FALSE, <<>>, <<>>),
      [Img(<<>>, TRUE, <<"l">>, FALSE, <<>>, <<>>) EXCEPT !.hasSrc = FALSE] }

CollectImages == AttrImages \cup SrcImages

InitCollect ==
    /\ pc = "collect"
    /\ IdlePure
    /\ IdleResolve
    /\ document \in [header : {NoHeader}, images : SeqsUpTo(CollectImages, MaxImages)]
    /\ imgIndex = 0
    /\ emoteMap = <<>>
    /\ IdleRun

NextCollect == CollectImage \/ CollectReturn

SpecCollect == InitCollect /\ [][NextCollect]_vars

\* the images visited so far that yield identifier id, in document order
VisitedWith(id) ==
    { k \in 1..imgIndex :
        LET e == ParseEmote(document.images[k]) IN e.ok /\ e.id = id }

Min(S) == CHOOSE x \in S : \A y \in S : x <= y

\* the record the callback builds from the k-th image
RecordOf(k) ==
    LET img == document.images[k]
        e == ParseEmote(img)
    IN [baseURL |-> e.baseURL, formatType |-> e.formatType,
        emoteCode |-> EmoteCodeOf(img, e.id)]

\* C5: the map holds one record per identifier met, the one built from the
\* first image with that identifier in document order.
C5_FirstSeenWins ==
    pc \in {"collect", "collected"} =>
        /\ \A k \in 1..imgIndex :
              LET e == ParseEmote(document.images[k]) IN e.ok => e.id \in DOMAIN emoteMap
        /\ \A id \in DOMAIN emoteMap : VisitedWith(id) # {}
        /\ \A id \in DOMAIN emoteMap : emoteMap[id] = RecordOf(Min(VisitedWith(id)))

\* C5 witness: two images of identifier 999 with different codes and base
\* URLs were visited and the record is the first one's
C5_Witness ==
    /\ pc = "collected"
    /\ Cardinality(VisitedWith(<<"9","9","9">>)) = 2
    /\ RecordOf(1).emoteCode # RecordOf(2).emoteCode
    /\ RecordOf(1).baseURL # RecordOf(2).baseURL
    /\ emoteMap[<<"9","9","9">>] = RecordOf(1)

\* the emote code the ordered fallback of the claim gives
FallbackCode(img, id) ==
    IF img.hasRegex /\ TrimSpace(img.regex) # <<>> THEN img.regex
    ELSE IF img.hasTooltip /\ TrimSpace(StripTags(img.tooltip)) # <<>>
         THEN TrimSpace(StripTags(img.tooltip))
    ELSE IF TrimSpace(img.parentText) # <<>> THEN TrimSpace(img.parentText)
    ELSE id

\* C9: every stored emoteCode is the first non-blank of data-regex, the
\* stripped and trimmed data-tooltip, the trimmed parent text, the identifier;
\* a blank data-regex is never the emoteCode.
C9_CodeFallback ==
    pc \in {"collect", "collected"} =>
        \A id \in DOMAIN emoteMap :
            /\ emoteMap[id].emoteCode
                 = FallbackCode(document.images[Min(VisitedWith(id))], id)
            /\ TrimSpace(emoteMap[id].emoteCode) # <<>>

(***************************************************************************)
(* downloadChannelEmotes, downloadEmoteImages and main                     *)
(***************************************************************************)
emoteSizeList == << <<"1",".","0">>, <<"2",".","0">>, <<"3",".","0">> >>

S_light == <<"/","l","i","g","h","t","/">>

\* getChannelDisplayName: the trimmed text of the first anchor of the first
\* div.card-header, else of its first h1, h2 or h3, else ""
getChannelDisplayName(doc) ==
    IF ~doc.header.present THEN <<>>
    ELSE IF doc.header.hasAnchor /\ TrimSpace(doc.header.anchor) # <<>>
         THEN TrimSpace(doc.header.anchor)
    ELSE IF doc.header.hasHeading /\ TrimSpace(doc.header.heading) # <<>>
         THEN TrimSpace(doc.header.heading)
    ELSE <<>>

\* lines 336-341: the output root of a channel page
OutputRootOf(doc, id) ==
    LET safeChannelName == makeSafeName(getChannelDisplayName(doc)) IN
    IF safeChannelName = S_unknown THEN makeSafeName(id) ELSE safeChannelName

\* filepath.Join of two non-empty names without separators or dots
PathJoin(a, b) == a \o <<"/">> \o b

PageRequest == [method |-> "GET", kind |-> "page", emote |-> <<>>, size |-> 0]

AssetRequest(e, i) == [method |-> "GET", kind |-> "asset", emote |-> e, size |-> i]

\* what the GET of the channel page can meet: an error of httpClient.Do, a
\* body goquery cannot read, a status other than 200, status 200
PageOutcomes == {"doErr", "parseErr", "404", "200"}

\* lines 126-131: the response body the GET of the page opens
PageOpened(outcome) == IF outcome = "doErr" THEN {} ELSE {"pageBody"}

\* the body is closed by fetchDocument when the page cannot be parsed (line
\* 133) and by the deferred Close of line 330 when the status is not 200
PageClosed(outcome) == IF outcome \in {"parseErr", "404"} THEN {"pageBody"} ELSE {}

\* a slip that drops the status test of line 332
ErrorOfPage_IgnoreStatus(outcome) ==
    IF outcome = "doErr" THEN "pageTransport"
    ELSE IF outcome = "parseErr" THEN "parse"
    ELSE ""

\* the error downloadChannelEmotes returns at lines 326-334, "" for none
ErrorOfPage(outcome) ==
    IF outcome = "doErr" THEN "pageTransport"
    ELSE IF outcome = "parseErr" THEN "parse"
    ELSE IF outcome # "200" THEN "status"
    ELSE ""

\* main: an error of the resolver or of downloadChannelEmotes ends the
\* process with os.Exit(1)
ExitWithError ==
    /\ pc \in {"resolved", "fetched"}
    /\ err # ""
    /\ exitCode' = 1
    /\ pc' = "done"
    /\ UNCHANGED <<tuiVars, ioVars, pureVars, resolveVars, collectVars, page, outputRoot, dirs,
                   files, processed, mkdirFailed, curEmote, sizeIdx, attempts,
                   lastOutcome>>

\* lines 324-334: fetchDocument and the status test; the page is one of
\* Documents when a body could be parsed
FetchPageWith(Documents) ==
    /\ pc = "resolved"
    /\ err = ""
    /\ \E o \in PageOutcomes, d \in Documents :
          /\ page' = o
          /\ document' = IF o \in {"doErr", "parseErr"} THEN NoDocument ELSE d
          /\ err' = ErrorOfPage(o)
          /\ openHandles' = AfterUse(openHandles, PageOpened(o), PageClosed(o))
    /\ requests' = Append(requests, PageRequest)
    /\ pc' = "fetched"
    /\ UNCHANGED <<tuiVars, logLines, pureVars, channelIdentifier, response, channelID, imgIndex,
                   emoteMap, outputRoot, dirs, files, processed, mkdirFailed,
                   curEmote, sizeIdx, attempts, lastOutcome, exitCode>>

\* lines 336-346: the output root and its MkdirAll, which succeeds or fails
MakeOutputRoot ==
    /\ pc = "fetched"
    /\ err = ""
    /\ outputRoot' = OutputRootOf(document, channelID)
    /\ \/ /\ dirs' = dirs \cup {outputRoot'}
          /\ pc' = "collect"
          /\ err' = err
          /\ UNCHANGED openHandles
       \/ /\ err' = "mkdir"
          /\ openHandles' = AfterUse(openHandles, {}, {"pageBody"})
          /\ UNCHANGED <<pc, dirs>>
    /\ UNCHANGED <<tuiVars, logLines, pureVars, channelIdentifier, response, channelID, requests,
                   collectVars, page, files, processed, mkdirFailed, curEmote,
                   sizeIdx, attempts, lastOutcome, exitCode>>

\* a slip that ends the range loop after an emote whose folder failed
Pending_StopAfterFolderError ==
    IF mkdirFailed # {} THEN {} ELSE (DOMAIN emoteMap) \ processed

\* the emotes the range loop of line 362 has not taken yet
Pending == (DOMAIN emoteMap) \ processed

SafeCodeOf(e) == makeSafeName(emoteMap[e].emoteCode)

EmoteFolderOf(e) == PathJoin(outputRoot, SafeCodeOf(e))

\* a line of the log: its prefix, the emote and the size index it is about (0
\* when it is about the folder of the emote)
LogLine(prefix, e, i) == <<prefix, e, i>>

\* lines 362-274: the range loop takes an emote, in any order, and
\* downloadEmoteImages makes its folder; if MkdirAll fails it returns
BeginEmote ==
    /\ pc = "collected"
    /\ \E e \in Pending :
          /\ processed' = processed \cup {e}
          /\ curEmote' = e
          /\ \/ /\ dirs' = dirs \cup {EmoteFolderOf(e)}
                /\ sizeIdx' = 1
                /\ pc' = "sizes"
                /\ UNCHANGED <<mkdirFailed, logLines>>
             \/ /\ mkdirFailed' = mkdirFailed \cup {e}
                /\ logLines' = logLines (+) SetToBag({LogLine("[error]", e, 0)})
                /\ UNCHANGED <<pc, dirs, sizeIdx>>
    /\ UNCHANGED <<tuiVars, openHandles, pureVars, resolveVars, collectVars, page, outputRoot, files,
                   attempts, lastOutcome, exitCode>>

\* http.NewRequest fails on a URL url.Parse rejects
RequestURLValid(url) == \A k \in 1..Len(url) : ~IsControlChar(url[k])

\* how one iteration of the loop of lines 276-320 can end
AttemptOutcomes(url) ==
    IF RequestURLValid(url) THEN {"doErr", "status", "createErr", "copyErr", "ok"}
                            ELSE {"requestErr"}

\* the outcomes in which no image was fetched
FetchFailures == {"requestErr", "doErr", "status"}

\* the handles one iteration opens: the response body (line 286) and, when
\* os.Create succeeds, the output file (line 303)
AssetOpened(outcome) ==
    IF outcome \in {"requestErr", "doErr"} THEN {}
    ELSE IF outcome \in {"status", "createErr"} THEN {"assetBody"}
    ELSE {"assetBody", "outputFile"}

\* a slip that forgets to close the body when the file cannot be created
AssetClosed_LeakOnCreateErr(outcome) ==
    IF outcome \in {"requestErr", "doErr", "createErr"} THEN {}
    ELSE IF outcome = "status" THEN {"assetBody"}
    ELSE {"assetBody", "outputFile"}

\* the handles one iteration closes: the body at line 294 or 306, the file and
\* the body at lines 311-312
AssetClosed(outcome) ==
    IF outcome \in {"requestErr", "doErr"} THEN {}
    ELSE IF outcome \in {"status", "createErr"} THEN {"assetBody"}
    ELSE {"assetBody", "outputFile"}

\* the prefix of the line one iteration logs
PrefixOf(outcome) == IF outcome = "ok" THEN "[ok]" ELSE "[skip]"

\* a slip that returns from downloadEmoteImages on a failed fetch
NextPosition_ReturnOnFailure(outcome, i) ==
    IF outcome \notin FetchFailures /\ i < Len(emoteSizeList)
    THEN [pc |-> "sizes", sizeIdx |-> i + 1]
    ELSE [pc |-> "collected", sizeIdx |-> 0]

\* a slip that leaves the loop one size early
NextPosition_OneShort(outcome, i) ==
    IF i < Len(emoteSizeList) - 1 THEN [pc |-> "sizes", sizeIdx |-> i + 1]
                                  ELSE [pc |-> "collected", sizeIdx |-> 0]

\* where control goes after the attempt of size i: every branch of the loop
\* body ends in continue or falls through to the next iteration
NextPosition(outcome, i) ==
    IF i < Len(emoteSizeList) THEN [pc |-> "sizes", sizeIdx |-> i + 1]
                              ELSE [pc |-> "collected", sizeIdx |-> 0]

\* lines 299-301
OutputPathOf(e, i, contentType) ==
    PathJoin(EmoteFolderOf(e),
             SafeCodeOf(e) \o <<"_">> \o emoteSizeList[i] \o <<".">>
                 \o determineFileExtension(contentType))

\* os.Create makes or truncates the file at path; writers are the emotes
\* whose image was written there so far
WriteFile(fs, path, e, complete) ==
    [p \in DOMAIN fs \cup {path} |->
        IF p = path
        THEN [by |-> e, complete |-> complete,
              writers |-> (IF path \in DOMAIN fs THEN fs[path].writers ELSE {}) \cup {e}]
        ELSE fs[p]]

\* one iteration of the loop of lines 276-320 for curEmote
DownloadSizeWith(ContentTypes) ==
    /\ pc = "sizes"
    /\ LET imageURL == emoteMap[curEmote].baseURL \o S_light \o emoteSizeList[sizeIdx] IN
       \E o \in AttemptOutcomes(imageURL), ct \in ContentTypes :
          /\ lastOutcome' = o
          /\ requests' = IF o = "requestErr" THEN requests
                         ELSE Append(requests, AssetRequest(curEmote, sizeIdx))
          /\ files' = IF o \in {"copyErr", "ok"}
                      THEN WriteFile(files, OutputPathOf(curEmote, sizeIdx, ct),
                                     curEmote, o = "ok")
                      ELSE files
          /\ openHandles' = AfterUse(openHandles, AssetOpened(o), AssetClosed(o))
          /\ logLines' = logLines (+) SetToBag({LogLine(PrefixOf(o), curEmote, sizeIdx)})
          /\ pc' = NextPosition(o, sizeIdx).pc
          /\ sizeIdx' = NextPosition(o, sizeIdx).sizeIdx
    /\ attempts' = Append(attempts, <<curEmote, sizeIdx>>)
    /\ UNCHANGED <<tuiVars, pureVars, channelIdentifier, response, channelID, err,
                   collectVars, page, outputRoot, dirs, processed, mkdirFailed,
                   curEmote, exitCode>>

\* the range loop is over (or the map is empty): downloadChannelEmotes
\* returns nil and main ends
FinishRun ==
    /\ pc = "collected"
    /\ Pending = {}
    /\ exitCode' = 0
    /\ pc' = "done"
    /\ openHandles' = AfterUse(openHandles, {}, {"pageBody"})
    /\ UNCHANGED <<tuiVars, logLines, pureVars, resolveVars, collectVars, page, outputRoot, dirs,
                   files, processed, mkdirFailed, curEmote, sizeIdx, attempts,
                   lastOutcome>>

(***************************************************************************)
(* Specification Spec: one run of main in text mode, from the identifier   *)
(* to the exit code.                                                       *)
(***************************************************************************)
RunIdentifiers == { <<"1","2">>, <<"a","b">> }

RunResponses ==
    { NoResponse,
      [doErr |-> FALSE, finalURL |-> S_twitchemotesBaseURL \o <<"/","c","h","a","n","n","e","l","s","/","1","2">>,
       body |-> <<>>, readErr |-> FALSE],
      [doErr |-> FALSE, finalURL |-> S_twitchemotesBaseURL,
       body |-> <<"x">>, readErr |-> FALSE] }

NamedHeader == [present |-> TRUE, anchor |-> <<" ","F","o","o"," ","B","a","r"," ">>, hasAnchor |-> TRUE,
                heading |-> <<>>, hasHeading |-> FALSE]

\* two emotes with the same code, and one whose base URL no request can be
\* made of
RunImages ==
    { Img(S_cdn \o <<"9","9","9","/","d","e","f","a","u","l","t","/","l","i","g","h","t","/","1",".","0">>, TRUE, <<"K","a","p","p","a">>, FALSE, <<>>, <<>>),
      Img(S_cdn \o <<"7","/","s","t","a","t","i","c","/","l","i","g","h","t","/","2",".","0">>, TRUE, <<"K","a","p","p","a">>, FALSE, <<>>, <<>>),
      Img(S_cdn \o <<"8","\t","/","d","e","f","a","u","l","t","/","l","i","g","h","t","/","1",".","0">>, TRUE, <<":",")">>, FALSE, <<>>, <<>>) }

\* the pages with a channel name and at most MaxRunImages images, and those
\* without a card header and at most one image
RunDocuments ==
    [header : {NamedHeader}, images : SeqsUpTo(RunImages, MaxRunImages)]
    \cup [header : {NoHeader}, images : SeqsUpTo(RunImages, 1)]

RunContentTypes == { <<"i","m","a","g","e","/","p","n","g">> }

Init ==
    /\ pc = "resolve"
    /\ IdlePure
    /\ channelIdentifier \in RunIdentifiers
    /\ response = NoResponse
    /\ channelID = <<>>
    /\ err = ""
    /\ requests = <<>>
    /\ IdleCollect
    /\ IdleRun

Resolve == ResolveWith(RunResponses)

FetchPage == FetchPageWith(RunDocuments)

DownloadSize == DownloadSizeWith(RunContentTypes)

Next ==
    \/ Resolve
    \/ ExitWithError
    \/ FetchPage
    \/ MakeOutputRoot
    \/ CollectImage
    \/ CollectReturn
    \/ BeginEmote
    \/ DownloadSize
    \/ FinishRun

Spec == Init /\ [][Next]_vars

\* main is one sequential process: a step that can be taken is taken
FairSpec == Spec /\ WF_vars(Next)

(***************************************************************************)
(* Properties of a run.                                                    *)
(***************************************************************************)
\* the <<emote, size index>> pairs attempted so far
Attempted == {attempts[k] : k \in 1..Len(attempts)}

SizeIndexes == 1..Len(emoteSizeList)

\* the run stopped before the download: the resolver or the page fetch failed
AbortedEarly ==
    \/ (pc \notin {"resolve"} /\ page = "none" /\ err # "")
    \/ page \in {"doErr", "parseErr", "404"}

\* C3: after a size whose fetch failed (no request could be made, transport
\* error, status other than 200) the next size of the same emote is the next
\* thing attempted, and a run that has ended has taken every emote of the map
\* and attempted every size of every emote whose folder exists.
C3_FailureSkipsOnlyThatSize ==
    /\ (/\ attempts # <<>>
        /\ lastOutcome \in FetchFailures
        /\ attempts[Len(attempts)][2] < Len(emoteSizeList))
       => /\ pc = "sizes"
          /\ curEmote = attempts[Len(attempts)][1]
          /\ sizeIdx = attempts[Len(attempts)][2] + 1
    /\ (pc = "done" /\ exitCode = 0)
       => /\ processed = DOMAIN emoteMap
          /\ \A e \in (DOMAIN emoteMap) \ mkdirFailed :
                \A i \in SizeIndexes : <<e, i>> \in Attempted

\* C3 witness: the run has ended after the fetch of the first size of the
\* first emote failed with a transport error, and that of another emote could
\* not even be requested; all six sizes were attempted
C3_Witness ==
    /\ pc = "done"
    /\ exitCode = 0
    /\ Len(attempts) = 6
    /\ lastOutcome = "requestErr"
    /\ Len(requests) = 4
    /\ files = <<>>
    /\ channelIdentifier = <<"1","2">>

\* C4: when the resolver or the page fetch fails nothing is created, no
\* asset is requested and the exit code is 1; when the resolver, the page
\* fetch and the creation of the output root succeed the exit code is 0.
C4_AbortOrExitZero ==
    /\ AbortedEarly =>
          /\ dirs = {}
          /\ files = <<>>
          /\ \A k \in 1..Len(requests) : requests[k].kind # "asset"
          /\ attempts = <<>>
          /\ pc = "done" => exitCode = 1
    /\ (pc = "done" /\ page = "200" /\ outputRoot \in dirs) => exitCode = 0
    /\ (pc = "done" /\ exitCode = 0) => (err = "" /\ page = "200" /\ outputRoot \in dirs)

\* C4 witness: a run ended with code 1 on a page answered with status 404
C4_Witness ==
    /\ pc = "done"
    /\ page = "404"
    /\ exitCode = 1
    /\ document.images # <<>>

\* the safety half of C10: sizes are attempted in list order, the sizes of
\* one emote one after the other, no pair twice, only for emotes whose folder
\* was made; a run that has ended has attempted every size of each of them
C10_OncePerCreatedFolder ==
    /\ \A k \in 1..Len(attempts) :
          /\ attempts[k][2] = ((k - 1) % Len(emoteSizeList)) + 1
          /\ attempts[k][1] \in processed \ mkdirFailed
          /\ attempts[k][2] > 1 => attempts[k][1] = attempts[k - 1][1]
    /\ \A j, k \in 1..Len(attempts) : j # k => attempts[j] # attempts[k]
    /\ \A e \in mkdirFailed : \A i \in SizeIndexes : <<e, i>> \notin Attempted
    /\ (pc = "done" /\ exitCode = 0)
       => \A e \in (DOMAIN emoteMap) \ mkdirFailed :
             \A i \in SizeIndexes : <<e, i>> \in Attempted

\* C10 (amended): every run terminates; each size of each emote whose folder
\* could be made is attempted exactly once, in the order of emoteSizeList and
\* emote after emote, and no size of an emote whose folder could not be made
\* is attempted.
C10_TerminatesOncePerCreatedFolder ==
    /\ []C10_OncePerCreatedFolder
    /\ <>(pc = "done")

\* C10 witness: the run has ended with two emotes, the folder of one could
\* not be made and the three sizes of the other were attempted
C10_Witness ==
    /\ pc = "done"
    /\ exitCode = 0
    /\ Cardinality(DOMAIN emoteMap) = 2
    /\ Cardinality(mkdirFailed) = 1
    /\ Len(attempts) = Len(emoteSizeList)

\* C10 as stated: when the run has ended every (record, size) pair has been
\* attempted exactly once.
C10_EveryPairAttempted ==
    (pc = "done" /\ exitCode = 0)
    => \A e \in DOMAIN emoteMap : \A i \in SizeIndexes :
          Cardinality({k \in 1..Len(attempts) : attempts[k] = <<e, i>>}) = 1

(***************************************************************************)
(* The interactive mode: model.Update and the commands it starts.          *)
(***************************************************************************)
MaxInputLen == 2

MaxPipelines == 2

logBufferMaxMessages == 200

S_warningText == "Please enter a Twitch channel name or ID."

\* model.hasExactLogLine
hasExactLogLine(mm, line) == \E i \in 1..Len(mm.logLines) : mm.logLines[i] = line

\* model.appendLogLine; a line is a tuple that starts with its text, <<>>
\* being the empty line
appendLogLine(mm, line) ==
    IF line = <<>> THEN mm
    ELSE LET all == Append(mm.logLines, line) IN
         [mm EXCEPT !.logLines =
            IF Len(all) > logBufferMaxMessages
            THEN SubSeq(all, Len(all) - logBufferMaxMessages + 1, Len(all))
            ELSE all]

RECURSIVE appendLogLines(_, _)
appendLogLines(mm, lines) ==
    IF lines = <<>> THEN mm
    ELSE appendLogLines(appendLogLine(mm, Head(lines)), Tail(lines))

NoCmd == [kind |-> "none", identifier |-> <<>>]

\* the keys told apart by Update: two that quit by their type, the q and ?
\* characters, Enter, and two characters that go to the text input
QuitKeys == {"ctrl+c", "esc"}

TextKeys == {"a", " "}

Keys == QuitKeys \cup {"q", "?", "enter"} \cup TextKeys

\* textinput.Update on a key: a character is added at the end of the value
textInputUpdate(value, key) == IF key \in TextKeys THEN Append(value, key) ELSE value

\* a slip that drops the test of m.downloading of lines 480-482
EnterIgnored_Never(mm) == FALSE

\* lines 480-482: Enter does nothing while a download runs
EnterIgnored(mm) == mm.downloading

\* lines 479-518: Update on the Enter key
UpdateEnter(mm) ==
    IF EnterIgnored(mm) THEN [m |-> mm, cmd |-> NoCmd]
    ELSE LET identifier == TrimSpace(mm.textInput) IN
         IF identifier = <<>>
         THEN [m |-> IF hasExactLogLine(mm, <<S_warningText>>) THEN mm
                     ELSE appendLogLine(mm, <<S_warningText>>),
               cmd |-> NoCmd]
         ELSE [m |-> appendLogLine([mm EXCEPT !.downloading = TRUE,
                                              !.downloadError = ""],
                                   <<"Resolving channel", identifier>>),
               cmd |-> [kind |-> "pipeline", identifier |-> identifier]]

\* lines 528-541: Update on the result of a pipeline
UpdateResult(mm, msg) ==
    LET logged == appendLogLines(mm, msg.LogLines)
        ended == IF msg.Error # ""
                 THEN [appendLogLine(logged, <<"Error", msg.Error>>)
                          EXCEPT !.downloadError = msg.Error]
                 ELSE appendLogLine(logged, <<"Download completed.">>)
    IN [m |-> [ended EXCEPT !.downloading = FALSE, !.textInput = <<>>],
        cmd |-> NoCmd]

\* model.Update: the new model and the command returned
Update(mm, msg) ==
    IF msg.type = "key"
    THEN IF msg.key \in QuitKeys \/ msg.key = "q"
            THEN [m |-> mm, cmd |-> [kind |-> "quit", identifier |-> <<>>]]
         ELSE IF msg.key = "?"
            THEN [m |-> [mm EXCEPT !.showHelp = ~mm.showHelp], cmd |-> NoCmd]
         ELSE IF msg.key = "enter" THEN UpdateEnter(mm)
         ELSE IF ~mm.downloading
            THEN [m |-> [mm EXCEPT !.textInput = textInputUpdate(mm.textInput, msg.key)],
                  cmd |-> NoCmd]
         ELSE [m |-> mm, cmd |-> NoCmd]
    ELSE IF msg.type = "downloadResult" THEN UpdateResult(mm, msg)
    ELSE [m |-> mm, cmd |-> NoCmd]

\* the pipelines started so far
Started ==
    Cardinality({i \in 1..Len(m.logLines) : m.logLines[i][1] = "Resolving channel"})

\* the program takes the command Update returned: tea.Quit ends it, a
\* pipeline is started as a command of its own
Dispatch(u) ==
    /\ m' = u.m
    /\ pc' = IF u.cmd.kind = "quit" THEN "quit" ELSE pc
    /\ commands' = IF u.cmd.kind = "pipeline"
                   THEN Append(commands, [identifier |-> u.cmd.identifier, io |-> "none"])
                   ELSE commands

\* a key is pressed and Update handles it
HandleKey ==
    /\ pc = "tui"
    /\ \E key \in Keys :
          LET u == Update(m, [type |-> "key", key |-> key]) IN
          /\ key \in TextKeys => Len(m.textInput) < MaxInputLen
          /\ u.cmd.kind = "pipeline" => Started < MaxPipelines
          /\ Dispatch(u)
    /\ UNCHANGED <<messages, pureVars, resolveVars, collectVars, runVars, ioVars>>

\* Update handles the oldest message sent by a command
HandleMessage ==
    /\ pc = "tui"
    /\ messages # <<>>
    /\ Dispatch(Update(m, Head(messages)))
    /\ messages' = Tail(messages)
    /\ UNCHANGED <<pureVars, resolveVars, collectVars, runVars, ioVars>>

\* lines 503-512: a running pipeline sends a request or writes a file
CommandStartsIO ==
    /\ pc = "tui"
    /\ \E i \in 1..Len(commands), io \in {"request", "write"} :
          /\ commands[i].io = "none"
          /\ commands' = [commands EXCEPT ![i].io = io]
    /\ UNCHANGED <<pc, m, messages, pureVars, resolveVars, collectVars, runVars, ioVars>>

\* the request or the write of a pipeline is over
CommandEndsIO ==
    /\ pc = "tui"
    /\ \E i \in 1..Len(commands) :
          /\ commands[i].io # "none"
          /\ commands' = [commands EXCEPT ![i].io = "none"]
    /\ UNCHANGED <<pc, m, messages, pureVars, resolveVars, collectVars, runVars, ioVars>>

\* lines 504-517: the pipeline returns its downloadResultMessage
CommandReturns ==
    /\ pc = "tui"
    /\ \E i \in 1..Len(commands) :
          /\ commands[i].io = "none"
          /\ commands' = SubSeq(commands, 1, i - 1) \o SubSeq(commands, i + 1, Len(commands))
          /\ \E result \in { [Error |-> "resolve", LogLines |-> << <<"Error resolving channel">> >>],
                             [Error |-> "download", LogLines |-> <<>>],
                             [Error |-> "", LogLines |-> << <<"Found 0 emotes">> >>] } :
                messages' = Append(messages, [type |-> "downloadResult",
                                              Error |-> result.Error,
                                              LogLines |-> result.LogLines])
    /\ UNCHANGED <<pc, m, pureVars, resolveVars, collectVars, runVars, ioVars>>

(***************************************************************************)
(* Specification SpecTui: the interactive mode under every sequence of     *)
(* keys, with at most MaxPipelines pipelines started.                      *)
(***************************************************************************)
InitTui ==
    /\ pc = "tui"
    /\ IdlePure
    /\ IdleResolve
    /\ IdleCollect
    /\ page = "none"
    /\ outputRoot = <<>>
    /\ dirs = {}
    /\ files = <<>>
    /\ processed = {}
    /\ mkdirFailed = {}
    /\ curEmote = <<>>
    /\ sizeIdx = 0
    /\ attempts = <<>>
    /\ lastOutcome = "none"
    /\ exitCode = -1
    /\ openHandles = {}
    /\ logLines = EmptyBag
    /\ m = NewModel
    /\ commands = <<>>
    /\ messages = << [type |-> "blink"] >>

NextTui ==
    \/ HandleKey
    \/ HandleMessage
    \/ CommandStartsIO
    \/ CommandEndsIO
    \/ CommandReturns

SpecTui == InitTui /\ [][NextTui]_vars

\* the pipelines that have a request or a write in flight
InFlight == {i \in 1..Len(commands) : commands[i].io # "none"}

\* the results of pipelines that Update has not handled yet
PendingResults == {i \in 1..Len(messages) : messages[i].type = "downloadResult"}

\* C11: in the interactive mode at most one pipeline exists at a time, running
\* or with its result not yet handled, exactly while m.downloading is true; so
\* at most one request or write is in flight.
C11_OnePipelineAtATime ==
    pc \in {"tui", "quit"} =>
        /\ Len(commands) + Cardinality(PendingResults) <= 1
        /\ m.downloading <=> (Len(commands) + Cardinality(PendingResults) = 1)
        /\ Cardinality(InFlight) <= 1

\* C11 witness: a second pipeline runs with a request in flight after the
\* result of the first one was handled
C11_Witness ==
    /\ pc = "tui"
    /\ Started = 2
    /\ hasExactLogLine(m, <<"Download completed.">>)
    /\ m.downloading
    /\ Len(commands) = 1
    /\ commands[1].io = "request"

(***************************************************************************)
(* Properties of the handles, the log and the paths of a run.              *)
(***************************************************************************)
\* C12: the body of the search response and the handles of a size are closed
\* when the call or the iteration that opened them is over, so only the body
\* of the page can be open between two steps, and nothing is open once the
\* run has returned, whatever branch it took.
C12_HandlesClosed ==
    /\ openHandles \subseteq {"pageBody"}
    /\ pc \in {"resolve", "resolved", "done"} => openHandles = {}
    /\ (pc = "fetched" /\ err # "") => openHandles = {}

\* C12 witness: a run that posted the search, fetched the page and met a file
\* it could not create, a copy that failed and a good download has ended with
\* nothing open
C12_Witness ==
    /\ pc = "done"
    /\ exitCode = 0
    /\ channelIdentifier = <<"a","b">>
    /\ lastOutcome = "createErr"
    /\ \E p \in DOMAIN files : ~files[p].complete
    /\ \E p \in DOMAIN files : files[p].complete
    /\ openHandles = {}

\* the asset requests made for emote e
AssetRequestsOf(e) ==
    {k \in 1..Len(requests) : requests[k].kind = "asset" /\ requests[k].emote = e}

\* C13: for an emote whose folder could not be made one [error] line is
\* logged, no asset is requested, no size is attempted and no file is written;
\* the run still takes every other emote and ends without error.
C13_FolderErrorSkipsEmote ==
    /\ \A e \in mkdirFailed :
          /\ CopiesIn(LogLine("[error]", e, 0), logLines) = 1
          /\ AssetRequestsOf(e) = {}
          /\ \A k \in 1..Len(attempts) : attempts[k][1] # e
          /\ \A p \in DOMAIN files : e \notin files[p].writers
          /\ \A i \in SizeIndexes :
                /\ ~BagIn(LogLine("[ok]", e, i), logLines)
                /\ ~BagIn(LogLine("[skip]", e, i), logLines)
    /\ (pc = "done" /\ mkdirFailed # {})
       => /\ err = ""
          /\ exitCode = 0
          /\ processed = DOMAIN emoteMap
          /\ \A e \in (DOMAIN emoteMap) \ mkdirFailed : AssetRequestsOf(e) # {}
                 \/ ~RequestURLValid(emoteMap[e].baseURL)

\* C13 witness: the folder of emote 999 could not be made, and the three
\* sizes of emote 7 were downloaded in the same run
C13_Witness ==
    /\ pc = "done"
    /\ mkdirFailed = { <<"9","9","9">> }
    /\ BagIn(LogLine("[error]", <<"9","9","9">>, 0), logLines)
    /\ \A i \in SizeIndexes : BagIn(LogLine("[ok]", <<"7">>, i), logLines)
    /\ Cardinality(AssetRequestsOf(<<"7">>)) = 3

\* C15: no path is written by two different emotes of one run.
C15_NoSharedPath ==
    \A p \in DOMAIN files : Cardinality(files[p].writers) <= 1

(***************************************************************************)
(* The shape of the records of collectEmoteMetadata.                       *)
(***************************************************************************)
\* the positions that bound the segments of s: before its first character,
\* at each "/", after its last character
Cuts(s) == {0, Len(s) + 1} \cup {j \in 1..Len(s) : s[j] = "/"}

\* the k-th position of the set cuts, counted from 0
NthCut(cuts, k) == CHOOSE c \in cuts : Cardinality({d \in cuts : d < c}) = k

\* the segments of s between "/" characters, numbered from 0
SegmentsOf(s) ==
    LET cuts == Cuts(s) IN
    [k \in 0..(Cardinality(cuts) - 2) |->
        SubSeq(s, NthCut(cuts, k) + 1, NthCut(cuts, k + 1) - 1)]

\* s ends with suffix
EndsWith(s, suffix) ==
    /\ Len(suffix) <= Len(s)
    /\ SubSeq(s, Len(s) - Len(suffix) + 1, Len(s)) = suffix

\* what the k-th image of the document must yield: nothing (ok is FALSE) if it
\* has no CDN marker or no absolute URL, if no segment is "emoticons" or if
\* fewer than three segments follow the first one that is; else segments i+2
\* and i+3 and the URL up to the end of segment i+3
ExpectedOf(k) ==
    LET img == document.images[k]
        absolute == IF img.hasSrc THEN FullImageSource(img.src)
                                  ELSE [ok |-> FALSE, url |-> <<>>]
        cuts == Cuts(absolute.url)
        segs == SegmentsOf(absolute.url)
        last == Cardinality(cuts) - 2
        hits == {j \in 0..last : segs[j] = S_emoticons}
        i == Min(hits)
    IN
    IF ~img.hasSrc \/ ~Contains(img.src, S_cdnMarker) \/ ~absolute.ok THEN NoEmote
    ELSE IF hits = {} THEN NoEmote
    ELSE IF last - i < 3 THEN NoEmote
    ELSE [ok |-> TRUE, id |-> segs[i + 2], formatType |-> segs[i + 3],
          baseURL |-> SubSeq(absolute.url, 1, NthCut(cuts, i + 4) - 1)]

\* C14: an image with the CDN marker yields a record exactly when at least
\* three segments follow the first "emoticons" segment of its absolute URL;
\* the record has segment i+2 as identifier, segment i+3 as formatType and
\* the URL up to segment i+3 as baseURL, which so ends with
\* "/" identifier "/" formatType.
C14_RecordShape ==
    pc \in {"collect", "collected"} =>
        /\ \A k \in 1..imgIndex :
              LET x == ExpectedOf(k) IN
              x.ok => /\ x.id \in DOMAIN emoteMap
                      /\ EndsWith(x.baseURL, <<"/">> \o x.id \o <<"/">> \o x.formatType)
        /\ \A id \in DOMAIN emoteMap :
              /\ \E k \in 1..imgIndex :
                    LET x == ExpectedOf(k) IN
                    /\ x.ok
                    /\ x.id = id
                    /\ x.formatType = emoteMap[id].formatType
                    /\ x.baseURL = emoteMap[id].baseURL
              /\ EndsWith(emoteMap[id].baseURL,
                          <<"/">> \o id \o <<"/">> \o emoteMap[id].formatType)

\* C14 witness: an image with exactly three segments after "emoticons", the
\* last one empty, gave a record, and one with two segments gave none
C14_Witness ==
    /\ pc = "collected"
    /\ Len(document.images) = 2
    /\ document.images[1].src = S_cdn \o <<"9","9","9","/">>
    /\ document.images[2].src = S_cdn \o <<"9","9","9">>
    /\ DOMAIN emoteMap = { <<"9","9","9">> }
    /\ emoteMap[<<"9","9","9">>].formatType = <<>>
    /\ emoteMap[<<"9","9","9">>].baseURL = S_cdn \o <<"9","9","9","/">>

====
